---- MODULE Spec2Model ----
(***************************************************************************)
(* Model of the worker pool of webcalc's server crate                      *)
(* (src/server/src/lib.rs): ServerConfig::new, Server::new,                *)
(* WorkerPool::new / execute / drop and the worker thread loop of          *)
(* Worker::new.                                                            *)
(*                                                                         *)
(* The main thread is one process (phase); every spawned worker thread is  *)
(* a process (tpc).  The mpsc channel is a FIFO sequence, the              *)
(* Arc<Mutex<Receiver>> is the lock holder plus a poison flag, and the     *)
(* receiver is alive as long as somebody owns a clone of the Arc.          *)
(*                                                                         *)
(* The body of Drop::drop is the pool's shutdown procedure.  The pool      *)
(* value is kept after the body has run, so that execute and a second run  *)
(* of the body can be applied to a pool that has been shut down.           *)
(***************************************************************************)
EXTENDS Integers, Sequences, FiniteSets, TLC

\* ------------------------------------------------------------------ bounds
MaxPool      == 2   \* largest pool size of the full-lifecycle specification
MaxTasks     == 3   \* jobs submitted in one behaviour
NumProducers == 2   \* producer contexts calling execute
MaxShutdowns == 2   \* runs of the shutdown procedure in one behaviour
MaxArgLen    == 2   \* length of the pool-size command line argument
MaxOver      == 1   \* sizes tried above WORKER_POOL_MAX_SIZE

\* ------------------------------------------------------- program constants
WORKER_POOL_MIN_SIZE == 1
WORKER_POOL_MAX_SIZE == 16

VARIABLES
    argv,       \* env::Args handed to ServerConfig::new (<<>> before the call)
    cfg,        \* result of ServerConfig::new
    phase,      \* position of the main thread
    size,       \* argument of WorkerPool::new
    failed,     \* a thread spawn failed inside WorkerPool::new
    workers,    \* WorkerPool.workers: sequence of [id, thread]
    tpc,        \* position of every spawned worker thread, by worker id
    cur,        \* job a worker thread executes (0: none), by worker id
    lock,       \* worker id holding the receiver mutex, or NoHolder
    poisoned,   \* the receiver mutex is poisoned
    queue,      \* messages in the channel, oldest first
    j,          \* loop index of the drop body
    drops,      \* runs of the drop body begun so far
    result,     \* what execute returned for each job ("none": not submitted)
    early,      \* jobs submitted before the first shutdown began
    runs,       \* how often each job's do_fn was invoked
    submitted,  \* jobs accepted by the channel, in send order
    dequeued,   \* jobs in the order workers received them
    inflight,   \* jobs pending or executing when the first shutdown began
    afterFault  \* jobs accepted after a job had panicked

vars == <<argv, cfg, phase, size, failed, workers, tpc, cur, lock, poisoned,
          queue, j, drops, result, early, runs, submitted, dequeued, inflight,
          afterFault>>

cfgVars  == <<argv, cfg>>
histVars == <<result, early, runs, submitted, dequeued, inflight, afterFault>>

Tasks     == 1..MaxTasks
Producers == 1..NumProducers
NoHolder  == -1

\* ---------------------------------------------------------------- messages
Terminate == [type |-> "Terminate"]
NewJob(t) == [type |-> "NewJob", job |-> t]

\* ------------------------------------------------- strings and usize parse
Chars  == {"0", "1", "6", "7", " ", "+", "-"}
Digits == {"0", "1", "2", "3", "4", "5", "6", "7", "8", "9"}

DigitVal(c) ==
    CASE c = "0" -> 0 [] c = "1" -> 1 [] c = "2" -> 2 [] c = "3" -> 3
      [] c = "4" -> 4 [] c = "5" -> 5 [] c = "6" -> 6 [] c = "7" -> 7
      [] c = "8" -> 8 [] c = "9" -> 9

RECURSIVE TrimStart(_)
TrimStart(s) ==
    IF s # <<>> /\ Head(s) = " " THEN TrimStart(Tail(s)) ELSE s

RECURSIVE TrimEnd(_)
TrimEnd(s) ==
    IF s # <<>> /\ s[Len(s)] = " " THEN TrimEnd(SubSeq(s, 1, Len(s) - 1)) ELSE s

Trim(s) == TrimEnd(TrimStart(s))

RECURSIVE DigitsVal(_, _)
DigitsVal(s, acc) ==
    IF s = <<>> THEN acc ELSE DigitsVal(Tail(s), acc * 10 + DigitVal(Head(s)))

\* str::parse::<usize>: an optional leading "+", then one or more digits.
ParseUsize(s) ==
    LET d == IF s # <<>> /\ Head(s) = "+" THEN Tail(s) ELSE s
    IN  IF d # <<>> /\ \A k \in 1..Len(d) : d[k] \in Digits
        THEN [ok |-> TRUE, val |-> DigitsVal(d, 0)]
        ELSE [ok |-> FALSE, val |-> 0]

RECURSIVE StringsUpTo(_)
StringsUpTo(n) ==
    IF n = 0 THEN {<<>>}
    ELSE LET S == StringsUpTo(n - 1)
         IN  S \cup {Append(s, c) : s \in {x \in S : Len(x) = n - 1}, c \in Chars}

\* Command lines: the program name followed by 0 to 3 arguments.
ArgLists ==
    {<<"server">>, <<"server", "host">>, <<"server", "host", "port">>}
        \cup {<<"server", "host", "port", s>> : s \in StringsUpTo(MaxArgLen)}

\* ------------------------------------------------------------------ helpers
Ids == 0..(Len(workers) - 1)

Live(tp) == {w \in DOMAIN tp : tp[w] \in {"lock", "recv", "exec"}}

\* The `recv` local of WorkerPool::new, alive until new returns.
RecvLocal(ph, fl) == ph = "new" \/ (fl /\ ph \in {"drop_send", "drop_join"})

\* The Receiver lives while a clone of its Arc does: the local of new, or
\* the closure of a worker thread that has not finished.
RecvAlive(ph, fl, tp) == RecvLocal(ph, fl) \/ Live(tp) # {}

\* The Sender is a field of the pool: gone once the pool is destroyed.
SenderAlive == phase \notin {"new_failed", "panicked"}

\* Mutants of the channel: a send that jumps the queue, a receive that
\* leaves the message in the channel.
SendFront(q, m) == <<m>> \o q
DequeueKeep(q) == q

Send(q, m) == Append(q, m)
Front(q) == Head(q)
Dequeue(q) == Tail(q)

\* Messages still queued are destroyed with the Receiver.
Kept(q, ph, fl, tp) == IF RecvAlive(ph, fl, tp) THEN q ELSE <<>>

\* The jobs of producer p, submitted in increasing order.
Owner(t) == ((t - 1) % NumProducers) + 1
NextTask(p) ==
    LET mine == {t \in Tasks : Owner(t) = p /\ result[t] = "none"}
    IN  IF mine = {} THEN 0 ELSE CHOOSE t \in mine : \A u \in mine : t <= u

Init ==
    /\ argv = <<>>
    /\ cfg = [tag |-> "unset", err |-> "", pool_size |-> 0]
    /\ phase = "init"
    /\ size = 0
    /\ failed = FALSE
    /\ workers = <<>>
    /\ tpc = <<>>
    /\ cur = <<>>
    /\ lock = NoHolder
    /\ poisoned = FALSE
    /\ queue = <<>>
    /\ j = 0
    /\ drops = 0
    /\ result = [t \in Tasks |-> "none"]
    /\ early = {}
    /\ runs = [t \in Tasks |-> 0]
    /\ submitted = <<>>
    /\ dequeued = <<>>
    /\ inflight = {}
    /\ afterFault = {}

\* ------------------------------------------------------ ServerConfig::new
CfgErr(kind) == [tag |-> "Err", err |-> kind, pool_size |-> 0]

\* Mutant: the bounds test without its lower bound.
SizeInvalidNoMin(n) == n > WORKER_POOL_MAX_SIZE

\* The bounds test of ServerConfig::new.
SizeInvalid(n) == n < WORKER_POOL_MIN_SIZE \/ n > WORKER_POOL_MAX_SIZE

\* args.next() drops the program name; host, port and pool size follow.
ServerConfig_new(args) ==
    LET rest == IF args = <<>> THEN <<>> ELSE Tail(args)
    IN  IF Len(rest) < 1 THEN CfgErr("host")
        ELSE IF Len(rest) < 2 THEN CfgErr("port")
        ELSE IF Len(rest) < 3 THEN CfgErr("pool_size")
        ELSE LET p == ParseUsize(Trim(rest[3]))
             IN  IF ~p.ok THEN CfgErr("parse")
                 ELSE IF SizeInvalid(p.val) THEN CfgErr("invalid")
                 ELSE [tag |-> "Ok", err |-> "", pool_size |-> p.val]

ServerConfigNew(args) ==
    /\ phase = "init"
    /\ cfg.tag = "unset"
    /\ argv' = args
    /\ cfg' = ServerConfig_new(args)
    /\ UNCHANGED <<phase, size, failed, workers, tpc, cur, lock, poisoned,
                   queue, j, drops>>
    /\ UNCHANGED histVars

\* -------------------------------------------------------- WorkerPool::new
\* Entry of WorkerPool::new(n): the channel and the empty pool are created.
WorkerPoolNew(n) ==
    /\ phase = "init"
    /\ phase' = "new"
    /\ size' = n
    /\ UNCHANGED <<failed, workers, tpc, cur, lock, poisoned, queue, j, drops>>
    /\ UNCHANGED cfgVars
    /\ UNCHANGED histVars

\* Server::new(cfg) with the config ServerConfig::new returned.
ServerNew ==
    /\ cfg.tag = "Ok"
    /\ WorkerPoolNew(cfg.pool_size)

\* The Worker built by Worker::new(i, ..) for loop index i.
NewWorker(i) == [id |-> i, thread |-> "Some"]

\* Mutant: the loop stops one worker short.
LoopDoneEarly == Len(workers) >= size - 1

\* The loop of WorkerPool::new is over once size workers were pushed.
LoopDone == Len(workers) >= size

\* One iteration of the loop: the thread is spawned and the worker pushed.
SpawnOk ==
    /\ phase = "new"
    /\ ~LoopDone
    /\ LET i == Len(workers)
       IN  /\ workers' = Append(workers, NewWorker(i))
           /\ tpc' = (i :> "lock") @@ tpc
           /\ cur' = (i :> 0) @@ cur
    /\ UNCHANGED <<phase, size, failed, lock, poisoned, queue, j, drops>>
    /\ UNCHANGED cfgVars
    /\ UNCHANGED histVars

\* Mutant: a failed spawn that leaves new without shutting the pool down.
SpawnFailNoDrop ==
    /\ phase = "new"
    /\ Len(workers) < size
    /\ failed' = TRUE
    /\ phase' = "new_failed"
    /\ UNCHANGED <<size, workers, tpc, cur, lock, poisoned, queue, j, drops>>
    /\ UNCHANGED cfgVars
    /\ UNCHANGED histVars

\* thread::Builder::spawn fails: new returns Err, which drops the pool built
\* so far (the drop body runs) before the `recv` local goes.
SpawnFail ==
    /\ phase = "new"
    /\ ~LoopDone
    /\ failed' = TRUE
    /\ phase' = "drop_send"
    /\ j' = 0
    /\ drops' = drops + 1
    /\ UNCHANGED <<size, workers, tpc, cur, lock, poisoned, queue>>
    /\ UNCHANGED cfgVars
    /\ UNCHANGED histVars

\* return Ok(pool): the `recv` local is dropped.
NewReturn ==
    /\ phase = "new"
    /\ LoopDone
    /\ phase' = "live"
    /\ queue' = Kept(queue, "live", failed, tpc)
    /\ UNCHANGED <<size, failed, workers, tpc, cur, lock, poisoned, j, drops>>
    /\ UNCHANGED cfgVars
    /\ UNCHANGED histVars

\* ---------------------------------------------------- WorkerPool::execute
\* Mutant: a send that never reports a closed channel.
AcceptsAlways == TRUE

\* What send does with the message: queued while the Receiver is alive.
Accepts == RecvAlive(phase, failed, tpc)

Execute(p) ==
    /\ phase \in {"live", "down"}
    /\ NextTask(p) # 0
    /\ LET t == NextTask(p)
       IN  /\ IF Accepts
              THEN /\ queue' = Send(queue, NewJob(t))
                   /\ result' = [result EXCEPT ![t] = "Ok"]
                   /\ submitted' = Append(submitted, t)
                   /\ afterFault' = IF \E w \in Ids : tpc[w] = "panicked"
                                    THEN afterFault \cup {t} ELSE afterFault
              ELSE /\ result' = [result EXCEPT ![t] = "Err"]
                   /\ UNCHANGED <<queue, submitted, afterFault>>
           /\ early' = IF drops = 0 THEN early \cup {t} ELSE early
    /\ UNCHANGED <<phase, size, failed, workers, tpc, cur, lock, poisoned,
                   j, drops, runs, dequeued, inflight>>
    /\ UNCHANGED cfgVars

\* -------------------------------------------------- Drop for WorkerPool
\* Jobs queued or executing: the work in flight.
Pending ==
    {queue[k].job : k \in {n \in 1..Len(queue) : queue[n].type = "NewJob"}}
        \cup {cur[w] : w \in {x \in DOMAIN cur : cur[x] # 0}}

\* The drop body is entered: by the pool going out of scope, or once more
\* on a pool that was shut down already.
DropBegin ==
    /\ phase \in {"live", "down"}
    /\ drops < MaxShutdowns
    /\ phase' = "drop_send"
    /\ j' = 0
    /\ drops' = drops + 1
    /\ inflight' = IF drops = 0 THEN Pending ELSE inflight
    /\ UNCHANGED <<size, failed, workers, tpc, cur, lock, poisoned, queue>>
    /\ UNCHANGED cfgVars
    /\ UNCHANGED <<result, early, runs, submitted, dequeued, afterFault>>

\* First loop: one send(Terminate).unwrap() per worker, then on to the joins.
DropSend ==
    /\ phase = "drop_send"
    /\ IF j < Len(workers)
       THEN IF Accepts
            THEN /\ queue' = Send(queue, Terminate)
                 /\ j' = j + 1
                 /\ UNCHANGED phase
            ELSE /\ phase' = "panicked"
                 /\ UNCHANGED <<queue, j>>
       ELSE /\ phase' = "drop_join"
            /\ j' = 0
            /\ UNCHANGED queue
    /\ UNCHANGED <<size, failed, workers, tpc, cur, lock, poisoned, drops>>
    /\ UNCHANGED cfgVars
    /\ UNCHANGED histVars

\* Mutant: a join that does not wait for the thread.
JoinableAlways(w) == TRUE

\* thread.join() returns once the thread has finished.
Joinable(w) == tpc[w] \in {"done", "panicked"}

\* Second loop: take each worker's handle and join().unwrap() it; after the
\* last one the body returns (and so does new, with Err, on a failed spawn).
DropJoin ==
    /\ phase = "drop_join"
    /\ IF j < Len(workers)
       THEN LET w == workers[j + 1]
            IN  IF w.thread = "None"
                THEN /\ j' = j + 1
                     /\ UNCHANGED <<phase, workers, queue>>
                ELSE /\ Joinable(w.id)
                     /\ workers' = [workers EXCEPT ![j + 1].thread = "None"]
                     /\ IF tpc[w.id] = "panicked"
                        THEN /\ phase' = "panicked"
                             /\ UNCHANGED <<j, queue>>
                        ELSE /\ j' = j + 1
                             /\ UNCHANGED <<phase, queue>>
       ELSE /\ phase' = IF failed THEN "new_failed" ELSE "down"
            /\ queue' = Kept(queue, phase', failed, tpc)
            /\ UNCHANGED <<j, workers>>
    /\ UNCHANGED <<size, failed, tpc, cur, lock, poisoned, drops>>
    /\ UNCHANGED cfgVars
    /\ UNCHANGED histVars

\* ------------------------------------------- the thread of Worker::new
\* Mutant: a lock that does not exclude.
MutexFreeAlways == TRUE

\* Mutex::lock returns only while no guard is out.
MutexFree == lock = NoHolder

\* job_recv.lock().unwrap(): blocks while another worker holds the mutex,
\* panics when the mutex is poisoned.
Lock(w) ==
    /\ tpc[w] = "lock"
    /\ MutexFree
    /\ IF poisoned
       THEN /\ tpc' = [tpc EXCEPT ![w] = "panicked"]
            /\ queue' = Kept(queue, phase, failed, tpc')
            /\ UNCHANGED lock
       ELSE /\ tpc' = [tpc EXCEPT ![w] = "recv"]
            /\ lock' = w
            /\ UNCHANGED queue
    /\ UNCHANGED <<phase, size, failed, workers, cur, poisoned, j, drops>>
    /\ UNCHANGED cfgVars
    /\ UNCHANGED histVars

\* Mutant: a Terminate arm without its break.
ExitNoBreak(w) == [tpc EXCEPT ![w] = "lock"]

\* The worker leaves its thread (break): the closure and its Arc clone go.
Exit(w) == [tpc EXCEPT ![w] = "done"]

\* Mutant: the guard bound to a name that lives as long as the loop body.
AfterRecvHeld(w) == w

\* The guard is a temporary of the let statement: once the message is
\* bound the mutex is free again.
AfterRecv(w) == NoHolder

\* A guard still out when the loop body ends is dropped there.
Unlocked(w) == IF lock = w THEN NoHolder ELSE lock

\* .recv().unwrap() under the guard, which is released at the end of the
\* statement; then the match: a NewJob calls do_fn, a Terminate breaks.
\* With the channel empty and the Sender gone recv fails and unwrap panics
\* under the guard, which poisons the mutex.
Recv(w) ==
    /\ tpc[w] = "recv"
    /\ lock = w
    /\ lock' = AfterRecv(w)
    /\ IF queue # <<>>
       THEN LET m == Front(queue)
            IN  IF m.type = "NewJob"
                THEN /\ tpc' = [tpc EXCEPT ![w] = "exec"]
                     /\ cur' = [cur EXCEPT ![w] = m.job]
                     /\ runs' = [runs EXCEPT ![m.job] = @ + 1]
                     /\ dequeued' = Append(dequeued, m.job)
                     /\ queue' = Dequeue(queue)
                     /\ UNCHANGED poisoned
                ELSE /\ tpc' = Exit(w)
                     /\ queue' = Kept(Dequeue(queue), phase, failed, tpc')
                     /\ UNCHANGED <<cur, runs, dequeued, poisoned>>
       ELSE /\ ~SenderAlive
            /\ tpc' = [tpc EXCEPT ![w] = "panicked"]
            /\ poisoned' = TRUE
            /\ UNCHANGED <<cur, runs, dequeued, queue>>
    /\ UNCHANGED <<phase, size, failed, workers, j, drops>>
    /\ UNCHANGED cfgVars
    /\ UNCHANGED <<result, early, submitted, inflight, afterFault>>

\* (job.do_fn)() returns: back to the top of the loop.
JobReturn(w) ==
    /\ tpc[w] = "exec"
    /\ tpc' = [tpc EXCEPT ![w] = "lock"]
    /\ cur' = [cur EXCEPT ![w] = 0]
    /\ lock' = Unlocked(w)
    /\ UNCHANGED <<phase, size, failed, workers, poisoned, queue, j, drops>>
    /\ UNCHANGED cfgVars
    /\ UNCHANGED histVars

\* (job.do_fn)() panics (handle unwraps every I/O and parse result): nothing
\* catches it, the thread unwinds and ends.  A guard dropped by the unwinding
\* would poison the mutex; the guard is not held here.
JobPanic(w) ==
    /\ tpc[w] = "exec"
    /\ tpc' = [tpc EXCEPT ![w] = "panicked"]
    /\ cur' = [cur EXCEPT ![w] = 0]
    /\ queue' = Kept(queue, phase, failed, tpc')
    /\ lock' = Unlocked(w)
    /\ poisoned' = (poisoned \/ lock = w)
    /\ UNCHANGED <<phase, size, failed, workers, j, drops>>
    /\ UNCHANGED cfgVars
    /\ UNCHANGED histVars

\* ------------------------------------------------------------ specifications
\* The whole life of a pool of up to MaxPool workers.
Next ==
    \/ \E n \in 0..MaxPool : WorkerPoolNew(n)
    \/ SpawnOk
    \/ SpawnFail
    \/ NewReturn
    \/ \E p \in Producers : Execute(p)
    \/ DropBegin
    \/ DropSend
    \/ DropJoin
    \/ \E w \in Ids : Lock(w)
    \/ \E w \in Ids : Recv(w)
    \/ \E w \in Ids : JobReturn(w)
    \/ \E w \in Ids : JobPanic(w)

Spec == Init /\ [][Next]_vars

\* Configuration and construction, for every size up to the maximum and
\* beyond; the workers spawned contend for the receiver.
NextNew ==
    \/ \E a \in ArgLists : ServerConfigNew(a)
    \/ ServerNew
    \/ \E n \in 0..(WORKER_POOL_MAX_SIZE + MaxOver) :
          cfg.tag = "unset" /\ WorkerPoolNew(n)
    \/ SpawnOk
    \/ NewReturn
    \/ \E w \in Ids : Lock(w)

SpecNew == Init /\ [][NextNew]_vars

\* ------------------------------------------------------------------ claims
\* A run of the shutdown procedure has returned normally.
ShutdownReturned == phase = "down" \/ drops >= 2

Faulted == \E w \in Ids : tpc[w] = "panicked"

\* C1: in a pool of 1 or more workers, when shutdown has returned every job
\* submitted before it has had its action invoked exactly once; and no job's
\* action is ever invoked twice, or invoked without having been accepted.
C1_ExactlyOnce ==
    /\ \A t \in Tasks : runs[t] <= 1
    /\ \A t \in Tasks : runs[t] = 1 => result[t] = "Ok"
    /\ (ShutdownReturned /\ size >= WORKER_POOL_MIN_SIZE)
          => \A t \in early : result[t] = "Ok" /\ runs[t] = 1

\* All jobs, submitted out of id order by the producers, ran on a pool of
\* several workers that was then shut down.
C1_Witness ==
    /\ phase = "down"
    /\ size >= 2
    /\ early = Tasks
    /\ submitted[1] # 1
    /\ \A t \in Tasks : runs[t] = 1

\* C2: workers receive jobs in the order execute sent them: the sequence of
\* dequeued jobs is always a prefix of the sequence of accepted jobs.
C2_FifoDispatch ==
    /\ Len(dequeued) <= Len(submitted)
    /\ \A k \in 1..Len(dequeued) : dequeued[k] = submitted[k]

\* Every job was dequeued, by two workers executing at once, the producers
\* having interleaved.
C2_Witness ==
    /\ Len(dequeued) = MaxTasks
    /\ submitted[1] # 1
    /\ \E v, w \in Ids : v # w /\ cur[v] # 0 /\ cur[w] # 0

\* C3: when the shutdown procedure has returned (from drop, or from the
\* new that failed), every worker thread has left its loop, none executes a
\* job, and the jobs in flight when shutdown began have run.
C3_ShutdownJoinsAll ==
    (ShutdownReturned \/ phase = "new_failed")
        => /\ \A w \in Ids : tpc[w] = "done" /\ cur[w] = 0
           /\ lock = NoHolder
           /\ \A t \in inflight : runs[t] = 1

\* Shutdown returned on a pool that had a job queued or executing when it began.
C3_Witness ==
    /\ phase = "down"
    /\ size >= 1
    /\ inflight # {}

\* C4: WorkerPool::new(size) with size in 1..16 returns a pool of exactly
\* size workers with ids 0..size-1, every thread in its receive loop, one of
\* them at most holding the one receiver.
C4_NewSpawnsSize ==
    (phase = "live" /\ size \in WORKER_POOL_MIN_SIZE..WORKER_POOL_MAX_SIZE)
        => /\ Len(workers) = size
           /\ \A k \in 1..Len(workers) :
                 /\ workers[k].id = k - 1
                 /\ workers[k].thread = "Some"
                 /\ tpc[k - 1] \in {"lock", "recv"}
                 /\ (tpc[k - 1] = "recv") = (lock = k - 1)
           /\ DOMAIN tpc = 0..(size - 1)

\* new(16) has returned and a worker waits in recv.
C4_Witness ==
    /\ phase = "live"
    /\ size = WORKER_POOL_MAX_SIZE
    /\ Len(workers) = WORKER_POOL_MAX_SIZE
    /\ lock # NoHolder

\* C5 (as claimed): WorkerPool::new with size 0 or size > 16 creates no pool
\* and spawns no worker.
C5_InvalidSizeRejected ==
    (phase # "init" /\ (size < WORKER_POOL_MIN_SIZE \/ size > WORKER_POOL_MAX_SIZE))
        => phase # "live" /\ workers = <<>>

\* C6: ServerConfig::new returns Err for a pool size that parses to less
\* than 1 or more than 16, every config it returns has 1 <= pool_size <= 16,
\* and the pool Server::new builds from it has 1 to 16 workers.
C6_ConfigBounds ==
    /\ cfg.tag = "Ok"
          => cfg.pool_size \in WORKER_POOL_MIN_SIZE..WORKER_POOL_MAX_SIZE
    /\ (cfg.tag # "unset" /\ Len(argv) >= 4)
          => LET p == ParseUsize(Trim(argv[4]))
             IN  (p.ok /\ (p.val < 1 \/ p.val > 16)) => cfg.tag = "Err"
    /\ (cfg.tag = "Ok" /\ phase = "live")
          => Len(workers) = cfg.pool_size /\ Len(workers) \in 1..16

\* A server was built from a parsed command line asking for 16 workers.
C6_Witness ==
    /\ cfg.tag = "Ok"
    /\ argv[4] = <<"1", "6">>
    /\ phase = "live"
    /\ Len(workers) = 16

\* C7: a job submitted once shutdown has completed gets Err from execute,
\* is not queued and never runs.
C7_SubmitAfterShutdown ==
    \A t \in Tasks :
        (result[t] # "none" /\ t \notin early)
            => /\ result[t] = "Err"
               /\ runs[t] = 0
               /\ \A k \in 1..Len(queue) : queue[k] # NewJob(t)

\* execute returned Err on a pool of workers that was shut down.
C7_Witness ==
    /\ phase = "down"
    /\ size >= 1
    /\ \E t \in Tasks : t \notin early /\ result[t] = "Err"

\* C8 (as claimed): before shutdown every worker of the pool is in its
\* receive loop or executing a job, whatever the jobs did.
C8_FaultKeepsWorker ==
    phase = "live" => Cardinality(Live(tpc)) = size

\* C9 (as claimed): after a job has faulted execute still returns Ok and the
\* shutdown procedure does not panic.
C9_FaultNotFatal ==
    Faulted => /\ phase # "panicked"
               /\ \A t \in early : result[t] # "Err"

C11_SpawnFailureCleansUp ==
    failed => /\ phase \in {"drop_send", "drop_join", "new_failed"}
              /\ Len(workers) < size
              /\ phase = "new_failed"
                    => /\ \A k \in 1..Len(workers) :
                             /\ workers[k].thread = "None"
                             /\ tpc[workers[k].id] = "done"
                       /\ queue = <<>>
                       /\ lock = NoHolder

\* new returned Err after the spawn of a later worker failed.
C11_Witness ==
    /\ phase = "new_failed"
    /\ Len(workers) >= 1
    /\ \A w \in Ids : tpc[w] = "done"

\* C12: at most one worker is inside recv and it is the holder of the
\* receiver mutex; a worker holds a job exactly while it executes it; no job
\* is held by two workers and none is dequeued twice.
C12_DequeueExclusive ==
    /\ Cardinality({w \in Ids : tpc[w] = "recv"}) <= 1
    /\ \A w \in Ids : (tpc[w] = "recv") = (lock = w)
    /\ \A w \in Ids : (cur[w] # 0) = (tpc[w] = "exec")
    /\ \A v, w \in Ids : (v # w /\ cur[v] # 0) => cur[v] # cur[w]
    /\ \A a, b \in 1..Len(dequeued) : a # b => dequeued[a] # dequeued[b]

\* One worker waits for the mutex another holds in recv, a job having been
\* dequeued and another being queued.
C12_Witness ==
    /\ \E v, w \in Ids : v # w /\ tpc[v] = "recv" /\ tpc[w] = "lock"
    /\ Len(dequeued) >= 1
    /\ \E k \in 1..Len(queue) : queue[k].type = "NewJob"

\* C13: a worker executing a job does not hold the receiver mutex, so
\* while any number of workers execute, a worker waiting for the mutex can
\* take it unless a worker is inside recv, and the worker inside recv gets
\* the next queued message.
C13_ExecuteOutsideLock ==
    /\ \A w \in Ids : tpc[w] = "exec" => lock # w
    /\ \A v \in Ids :
          (tpc[v] = "lock" /\ \A u \in Ids : tpc[u] # "recv") => ENABLED Lock(v)
    /\ \A v \in Ids : (tpc[v] = "recv" /\ queue # <<>>) => ENABLED Recv(v)

\* Two workers execute different jobs at the same time.
C13_Witness ==
    \E v, w \in Ids :
        /\ v # w
        /\ tpc[v] = "exec" /\ tpc[w] = "exec"
        /\ cur[v] # cur[w]
        /\ lock = NoHolder

\* C14 (as claimed): a worker thread leaves its loop only in the step that
\* receives a Terminate, and a worker that has left stays out: it never
\* locks, receives or executes again.
C14_WorkerStateMachine ==
    [][\A w \in Ids :
          /\ (w \in Live(tpc) /\ w \notin Live(tpc'))
                => /\ tpc[w] = "recv"
                   /\ queue # <<>>
                   /\ Front(queue) = Terminate
                   /\ tpc'[w] = "done"
          /\ w \notin Live(tpc) => (tpc'[w] = tpc[w] /\ cur'[w] = 0)]_vars

\* Terminate messages in the channel; workers that have consumed one.
Terms == Cardinality({k \in 1..Len(queue) : queue[k] = Terminate})
Consumed == Cardinality({w \in Ids : tpc[w] = "done"})

\* C15 (as claimed): during the pool's shutdown the Terminates in the
\* channel plus the workers that consumed one equal the Terminates sent so
\* far (all of them, one per worker, once the joins begin), and when the
\* shutdown has returned none is left and every worker has consumed one.
C15_OneTerminatePerWorker ==
    /\ (drops = 1 /\ phase = "drop_send") => Terms + Consumed = j
    /\ (drops = 1 /\ phase = "drop_join") => Terms + Consumed = Len(workers)
    /\ (drops = 1 /\ phase \in {"down", "new_failed"})
          => Terms = 0 /\ Consumed = Len(workers)

\* ------------------------------------------------------------- fair runs
\* The next step of worker thread w, whatever it is.
WorkerStep(w) ==
    /\ w \in Ids
    /\ (Lock(w) \/ Recv(w) \/ JobReturn(w) \/ JobPanic(w))

\* The scheduler lets every thread that can take a step take one: the main
\* thread inside the drop body, and each worker thread (a worker blocked on
\* the mutex or in recv cannot; a job that has started ends).
Fairness ==
    /\ WF_vars(DropSend)
    /\ WF_vars(DropJoin)
    /\ \A w \in 0..(MaxPool - 1) : WF_vars(WorkerStep(w))

SpecFair == Init /\ [][Next]_vars /\ Fairness

\* C16: under fair scheduling, a drop of the pool that has begun leads to
\* its return with every worker out of its loop and joined, unless a job's
\* action has not returned but panicked.
C16_ShutdownTerminates ==
    (drops = 1 /\ phase \in {"drop_send", "drop_join"})
        ~> \/ /\ phase \in {"down", "new_failed"}
              /\ \A k \in 1..Len(workers) :
                    workers[k].thread = "None" /\ tpc[workers[k].id] = "done"
           \/ Faulted

\* The drop of a pool of two workers returned, begun while jobs were in
\* flight, none of which panicked.
C16_Witness ==
    /\ drops = 1
    /\ phase = "down"
    /\ Len(workers) >= 2
    /\ Cardinality(inflight) >= 2
    /\ ~Faulted

\* C17 (as claimed): on a pool of 1 to 16 workers that has not been shut
\* down execute can always be called, is never refused by the channel and
\* has returned Ok for every job, whatever is queued and whatever the
\* workers are doing.
C17_SubmitNeverBlocks ==
    (phase = "live" /\ size \in WORKER_POOL_MIN_SIZE..WORKER_POOL_MAX_SIZE)
        => /\ \A p \in Producers : NextTask(p) # 0 => ENABLED Execute(p)
           /\ Accepts
           /\ \A t \in early : result[t] = "Ok"

InQueue(t) == \E k \in 1..Len(queue) : queue[k] = NewJob(t)

\* C18: a job's panic never poisons the receiver mutex nor leaves it held
\* by the dead worker; a job accepted after a panic is not lost while a live
\* worker remains, and under fair scheduling it is run unless every
\* remaining worker has died as well (the jobs accepted after a panic only
\* grow and a job that ran stays run, so "again and again all of them have
\* run" says that each of them eventually runs).
C18_PanicOutsideLock ==
    /\ [](poisoned = FALSE)
    /\ [](\A w \in Ids : tpc[w] = "panicked" => lock # w)
    /\ [](Faulted => (lock = NoHolder \/ tpc[lock] = "recv"))
    /\ [](\A t \in afterFault : runs[t] = 1 \/ InQueue(t) \/ Live(tpc) = {})
    /\ []<>(\A t \in afterFault : runs[t] = 1 \/ Live(tpc) = {})

\* After a job panicked on one worker, a job submitted later was run by
\* another worker, which is still alive.
C18_Witness ==
    /\ Faulted
    /\ Live(tpc) # {}
    /\ \E t \in afterFault : runs[t] = 1 /\ \A w \in Ids : cur[w] # t
    /\ ~poisoned

====
